---- MODULE Spec2Model ----
(***************************************************************************)
(* Model of the edge tunnel endpoint of src/src/lib.rs: the fetch entry    *)
(* point `main`, the `tunnel` route handler with its directory lookup      *)
(* (durable KV entry "proxy_kv", remote fetch, write-back), the candidate  *)
(* selection, the WebSocket upgrade and the spawned relay session.         *)
(*                                                                         *)
(* Strings that the handler inspects (route segments, region codes,        *)
(* candidates) are sequences of one-character strings, so that the two     *)
(* regular expressions, split, replace, split_once and the port parser are *)
(* computed as the code computes them.                                     *)
(***************************************************************************)
EXTENDS Integers, Sequences, FiniteSets, TLC

\* ------------------------------------------------------------------ bounds
NumReqs == 2          \* request slots that may be in flight together
MaxRand == 3          \* random bytes are drawn from 0..MaxRand

Reqs == 1..NumReqs

\* --------------------------------------------------------- character data
Upper == {"A","B","C","D","E","F","G","H","I","J","K","L","M",
          "N","O","P","Q","R","S","T","U","V","W","X","Y","Z"}
AsciiDigits == <<"0","1","2","3","4","5","6","7","8","9">>

IsUpper(c) == c \in Upper
IsAsciiDigit(c) == \E i \in 1..10 : AsciiDigits[i] = c
\* \d of the regex crate is Unicode-aware: it also matches decimal digits
\* outside ASCII; "u0663" stands for one such character (ARABIC-INDIC THREE).
IsRegexDigit(c) == IsAsciiDigit(c) \/ c = "u0663"
\* . of the regex crate matches everything but a line feed
IsRegexDot(c) == c # "LF"
DigitVal(c) == (CHOOSE i \in 1..10 : AsciiDigits[i] = c) - 1

\* ------------------------------------------------------- string functions
\* PROXYIP_PATTERN  ^.+-\d+$
PROXYIP_PATTERN_is_match(s) ==
    \E i \in 2..(Len(s) - 1) :
        /\ s[i] = "-"
        /\ \A j \in 1..(i - 1) : IsRegexDot(s[j])
        /\ \A j \in (i + 1)..Len(s) : IsRegexDigit(s[j])

\* PROXYKV_PATTERN  ^([A-Z]{2})
PROXYKV_PATTERN_is_match(s) ==
    Len(s) >= 2 /\ IsUpper(s[1]) /\ IsUpper(s[2])

\* index of the first occurrence of c in s, 0 when there is none
FirstIndex(s, c) ==
    IF \E i \in 1..Len(s) : s[i] = c
    THEN CHOOSE i \in 1..Len(s) : s[i] = c /\ \A j \in 1..(i - 1) : s[j] # c
    ELSE 0

\* str::split(",") collected into a Vec: never empty, pieces may be empty
RECURSIVE split(_, _)
split(s, c) ==
    LET i == FirstIndex(s, c) IN
    IF i = 0 THEN <<s>>
    ELSE <<SubSeq(s, 1, i - 1)>> \o split(SubSeq(s, i + 1, Len(s)), c)

\* str::replace(from, to) for one-character patterns: every occurrence
replace(s, from, to) ==
    [i \in 1..Len(s) |-> IF s[i] = from THEN to ELSE s[i]]

\* str::split_once('-'): None when there is no '-'
split_once(s, c) ==
    LET i == FirstIndex(s, c) IN
    IF i = 0 THEN [some |-> FALSE, addr |-> <<>>, port_str |-> <<>>]
    ELSE [some |-> TRUE, addr |-> SubSeq(s, 1, i - 1),
          port_str |-> SubSeq(s, i + 1, Len(s))]

RECURSIVE DecimalValue(_)
DecimalValue(s) ==
    IF Len(s) = 0 THEN 0
    ELSE 10 * DecimalValue(SubSeq(s, 1, Len(s) - 1)) + DigitVal(s[Len(s)])

U16_MAX == 65535
\* <u16 as FromStr>::from_str: an optional '+', then one or more ASCII
\* digits, the value at most u16::MAX
parse_u16(s) ==
    LET t == IF Len(s) > 0 /\ s[1] = "+" THEN Tail(s) ELSE s IN
    IF /\ Len(t) > 0
       /\ \A i \in 1..Len(t) : IsAsciiDigit(t[i])
       /\ DecimalValue(t) <= U16_MAX
    THEN [ok |-> TRUE, port |-> DecimalValue(t)]
    ELSE [ok |-> FALSE, port |-> 0]

\* ---------------------------------------------------------- directory text
\* A directory text is the JSON object held by the remote source and by the
\* durable entry, as the sequence of its members in document order.  A member
\* is [k |-> key, isList |-> whether the value is an array of strings,
\* v |-> the array].
Member(k, v) == [k |-> k, isList |-> TRUE, v |-> v]
NotAList(k) == [k |-> k, isList |-> FALSE, v |-> <<>>]

\* serde_json::from_str::<HashMap<String, Vec<String>>>: an error when a
\* value is not an array of strings; of two members with one key the later
\* one is kept.
from_str(text) ==
    IF \E i \in 1..Len(text) : ~text[i].isList
    THEN [ok |-> FALSE, map |-> <<>>]
    ELSE [ok |-> TRUE,
          map |-> [k \in {text[i].k : i \in 1..Len(text)} |->
                     LET last == CHOOSE i \in 1..Len(text) :
                                    /\ text[i].k = k
                                    /\ \A j \in (i + 1)..Len(text) : text[j].k # k
                     IN text[last].v]]

\* HashMap::get
map_get(map, key) ==
    IF key \in DOMAIN map THEN [some |-> TRUE, list |-> map[key]]
    ELSE [some |-> FALSE, list |-> <<>>]

\* ------------------------------------------------------------- input data
AA == <<"A","A">>
BB == <<"B","B">>
CC == <<"C","C">>
EE == <<"E","E">>
ZZ == <<"Z","Z">>

DirA == << Member(AA, << <<"h",":","8","0">>, <<"g",":","8","1">> >>),
           Member(BB, << <<"x">>, <<"a","-","b",":","8","0">> >>),
           Member(EE, << >>) >>
DirB == << Member(AA, << <<"j",":","8","0">> >>),
           Member(BB, << <<"h",":","1",":","2">> >>),
           Member(CC, << <<"h",":","7","0","0","0","0">> >>) >>
DirBad == << NotAList(AA) >>
Texts == {DirA, DirB, DirBad}

\* route segments a client may send
Segments == { <<"h","-","8","0">>,                 \* literal host-port
              <<"a","-","b","-","8","0">>,         \* host containing '-'
              <<"h","-","7","0","0","0","0">>,     \* port above u16::MAX
              <<"x">>,                             \* no port
              <<"A","A","-","8","0">>,             \* literal, host in capitals
              AA, BB, CC, EE, ZZ,
              <<"A","A",",","B","B">> }            \* selector list
UpgradeHeaders == {"websocket", ""}

\* the UUID environment variable: unset, set to text that is no UUID, or set
\* to a UUID
UuidVars == {"unset", "not-a-uuid", "uuid-1"}
NilUuid == "00000000-0000-0000-0000-000000000000"
\* Uuid::parse_str(..).unwrap_or_default()
uuid_or_default(var) == IF var = "uuid-1" THEN "uuid-1" ELSE NilUuid

EdgeHost == <<"e","d","g","e">>
NoStr == <<>>

\* state of the remote directory source
RemoteStates == {[kind |-> "neterr", status |-> 0, body |-> <<>>],
                 [kind |-> "http", status |-> 500, body |-> <<>>]}
                \cup {[kind |-> "http", status |-> 200, body |-> t] : t \in Texts}

KV_CACHE_TTL == 60 * 60 * 24
Absent == [present |-> FALSE, text |-> <<>>, ttl |-> 0]
Stored(text, ttl) == [present |-> TRUE, text |-> text, ttl |-> ttl]

\* ---------------------------------------------------------------- responses
NoResp == [status |-> 0, body |-> ""]
Response_error(msg, status) == [status |-> status, body |-> msg]
Response_from_html(html) == [status |-> 200, body |-> html]
Response_from_websocket == [status |-> 101, body |-> "websocket"]

\* -------------------------------------------------------------------- state
VARIABLES
    uuidVar,    \* the UUID environment variable of the deployment
    kv,         \* durable store, key "proxy_kv"
    remote,     \* what the remote directory source answers now
    pc,         \* per request: position in main / tunnel
    seg,        \* per request: the :proxyip route parameter
    upg,        \* per request: value of the Upgrade header ("" when absent)
    cfg,        \* per request: Config (cx.data)
    kvid_list,  \* per request: the split selector list
    fetched,    \* per request: text returned by fetch_proxy_kv_from_github
    cache_err,  \* per request: the write-back failed and line 128 logged it
    proxy_kv_str, \* per request: the directory text resolved against
    proxyip,    \* per request: the local `proxyip`
    kv_index,   \* per request: the local `kv_index`, -1 before the draw
    draws,      \* per request: calls of get_random_bytes
    ws,         \* per request: "none" | "paired" | "accepted"
    sess,       \* per request: state of the spawned relay task
    resp        \* per request: response returned to the client

vars == <<uuidVar, kv, remote, pc, seg, upg, cfg, kvid_list, fetched,
          cache_err, proxy_kv_str, proxyip, kv_index, draws, ws, sess, resp>>

NoCfg == [uuid |-> "", host |-> NoStr, proxy_addr |-> NoStr, proxy_port |-> 0]
NoText == [some |-> FALSE, text |-> <<>>]
SomeText(t) == [some |-> TRUE, text |-> t]

Init ==
    /\ uuidVar \in UuidVars
    /\ kv = Absent
    /\ remote \in RemoteStates
    /\ pc = [r \in Reqs |-> "idle"]
    /\ seg = [r \in Reqs |-> NoStr]
    /\ upg = [r \in Reqs |-> ""]
    /\ cfg = [r \in Reqs |-> NoCfg]
    /\ kvid_list = [r \in Reqs |-> <<>>]
    /\ fetched = [r \in Reqs |-> NoText]
    /\ cache_err = [r \in Reqs |-> FALSE]
    /\ proxy_kv_str = [r \in Reqs |-> NoText]
    /\ proxyip = [r \in Reqs |-> NoStr]
    /\ kv_index = [r \in Reqs |-> -1]
    /\ draws = [r \in Reqs |-> 0]
    /\ ws = [r \in Reqs |-> "none"]
    /\ sess = [r \in Reqs |-> "none"]
    /\ resp = [r \in Reqs |-> NoResp]

\* the handler returns `response`
Return(r, response) ==
    /\ resp' = [resp EXCEPT ![r] = response]
    /\ pc' = [pc EXCEPT ![r] = "done"]

\* ------------------------------------------------------------------- main
\* main, lines 24-62, for a request routed to tunnel.  An unset UUID is the
\* only configuration failure that ends the request; UUID text that does not
\* parse becomes the default (nil) identity.
main(r, segment, upgrade) ==
    /\ pc[r] = "idle"
    /\ seg' = [seg EXCEPT ![r] = segment]
    /\ upg' = [upg EXCEPT ![r] = upgrade]
    /\ IF uuidVar = "unset"
       THEN /\ Return(r, Response_error("Internal Server Error", 500))
            /\ UNCHANGED cfg
       ELSE /\ cfg' = [cfg EXCEPT ![r] =
                         [uuid |-> uuid_or_default(uuidVar), host |-> EdgeHost,
                          proxy_addr |-> EdgeHost, proxy_port |-> 443]]
            /\ pc' = [pc EXCEPT ![r] = "tunnel"]
            /\ UNCHANGED resp
    /\ UNCHANGED <<uuidVar, kv, remote, kvid_list, fetched, cache_err, proxy_kv_str,
                   proxyip, kv_index, draws, ws, sess>>

\* ----------------------------------------------------------------- tunnel
\* lines 104-119: the parameter, the selector test, the split and the KV
\* binding.  bindingOk is the outcome of cx.kv("SIREN").  Both routes of
\* tunnel carry :proxyip, so cx.param is always Some.
tunnel_enter(r, bindingOk) ==
    /\ pc[r] = "tunnel"
    /\ proxyip' = [proxyip EXCEPT ![r] = seg[r]]
    /\ IF PROXYKV_PATTERN_is_match(seg[r])
       THEN /\ kvid_list' = [kvid_list EXCEPT ![r] = split(seg[r], ",")]
            /\ IF bindingOk
               THEN pc' = [pc EXCEPT ![r] = "kv_get"] /\ UNCHANGED resp
               ELSE Return(r, Response_error("Internal Server Error", 500))
       ELSE /\ pc' = [pc EXCEPT ![r] = "upgrade"]
            /\ UNCHANGED <<kvid_list, resp>>
    /\ UNCHANGED <<uuidVar, kv, remote, seg, upg, cfg, fetched, cache_err, proxy_kv_str,
                   kv_index, draws, ws, sess>>

\* a lookup that fetches from the remote source whether or not the entry
\* is present
tunnel_kv_get_always_fetch(r, readOk) ==
    /\ pc[r] = "kv_get"
    /\ IF ~readOk
       THEN Return(r, Response_error("Internal Server Error", 500))
       ELSE pc' = [pc EXCEPT ![r] = "fetch"] /\ UNCHANGED resp
    /\ UNCHANGED <<uuidVar, kv, remote, seg, upg, cfg, kvid_list, fetched,
                   cache_err, proxy_kv_str, proxyip, kv_index, draws, ws, sess>>

\* lines 121-124, 138-141: kv.get("proxy_kv").text().await
tunnel_kv_get(r, readOk) ==
    /\ pc[r] = "kv_get"
    /\ IF ~readOk
       THEN /\ Return(r, Response_error("Internal Server Error", 500))
            /\ UNCHANGED proxy_kv_str
       ELSE IF kv.present
       THEN /\ proxy_kv_str' = [proxy_kv_str EXCEPT ![r] = SomeText(kv.text)]
            /\ pc' = [pc EXCEPT ![r] = "select"]
            /\ UNCHANGED resp
       ELSE /\ pc' = [pc EXCEPT ![r] = "fetch"]
            /\ UNCHANGED <<proxy_kv_str, resp>>
    /\ UNCHANGED <<uuidVar, kv, remote, seg, upg, cfg, kvid_list, fetched, cache_err,
                   proxyip, kv_index, draws, ws, sess>>

\* fetch_proxy_kv_from_github without the status test of lines 224-226
fetch_ignoring_status(source, bodyOk) ==
    IF source.kind = "neterr" THEN NoText
    ELSE IF ~bodyOk THEN NoText
    ELSE SomeText(source.body)

\* fetch_proxy_kv_from_github, lines 220-229: Err on a send failure, on a
\* status other than 200 and on a body that cannot be read (bodyOk)
fetch_proxy_kv_from_github(source, bodyOk) ==
    IF source.kind = "neterr" THEN NoText
    ELSE IF source.status # 200 THEN NoText
    ELSE IF ~bodyOk THEN NoText
    ELSE SomeText(source.body)

\* lines 125-126, 132-135
tunnel_fetch(r, bodyOk) ==
    /\ pc[r] = "fetch"
    /\ LET res == fetch_proxy_kv_from_github(remote, bodyOk) IN
       IF res.some
       THEN /\ fetched' = [fetched EXCEPT ![r] = res]
            /\ pc' = [pc EXCEPT ![r] = "kv_put"]
            /\ UNCHANGED resp
       ELSE /\ Return(r, Response_error("Failed to fetch proxy list", 502))
            /\ UNCHANGED fetched
    /\ UNCHANGED <<uuidVar, kv, remote, seg, upg, cfg, kvid_list, cache_err,
                   proxy_kv_str, proxyip, kv_index, draws, ws, sess>>

\* a write-back that keeps an entry another request has stored meanwhile
kv_put_if_absent(entry, text, writeOk) ==
    IF writeOk /\ ~entry.present THEN Stored(text, KV_CACHE_TTL) ELSE entry

\* kv.put("proxy_kv", &str).expiration_ttl(KV_CACHE_TTL).execute(): the new
\* value of the entry; a failed write leaves the entry as it was
kv_put(entry, text, writeOk) ==
    IF writeOk THEN Stored(text, KV_CACHE_TTL) ELSE entry

\* lines 127-130: the write-back; its failure is logged and the fetched
\* text is used all the same.  The `?` on kv.put(..) guards the conversion
\* of the value, which does not fail for a string.
tunnel_kv_put(r, writeOk) ==
    /\ pc[r] = "kv_put"
    /\ kv' = kv_put(kv, fetched[r].text, writeOk)
    /\ cache_err' = [cache_err EXCEPT ![r] = ~writeOk]
    /\ proxy_kv_str' = [proxy_kv_str EXCEPT ![r] = fetched[r]]
    /\ pc' = [pc EXCEPT ![r] = "select"]
    /\ UNCHANGED <<uuidVar, remote, seg, upg, cfg, kvid_list, fetched,
                   proxyip, kv_index, draws, ws, sess, resp>>

\* the region index reduced by one more than the length of the list
region_index_off_by_one(byte, list) == byte % (Len(list) + 1)

\* line 161: (rand_buf[0] as usize) % kvid_list.len()
region_index(byte, list) == byte % Len(list)

\* line 169: (rand_buf[0] as usize) % proxy_list.len()
candidate_index(byte, proxy_list) == byte % Len(proxy_list)

\* select with the `return` of line 172 lost: an absent region falls
\* through to the upgrade test
select_absent_falls_through(list, map, byte) ==
    LET index == region_index(byte, list)
        region == list[index + 1]
        found == map_get(map, region)
    IN IF found.some
       THEN IF Len(found.list) = 0
            THEN [ok |-> FALSE, kv_index |-> index, proxyip |-> region,
                  resp |-> Response_error("No proxies available for this region", 404)]
            ELSE LET proxyip_index == candidate_index(byte, found.list) IN
                 [ok |-> TRUE, kv_index |-> index,
                  proxyip |-> replace(found.list[proxyip_index + 1], ":", "-"),
                  resp |-> NoResp]
       ELSE [ok |-> TRUE, kv_index |-> index, proxyip |-> region, resp |-> NoResp]

\* select with the is_empty test of lines 166-168 skipping the draw instead
\* of returning: an empty list is ignored
select_empty_ignored(list, map, byte) ==
    LET index == region_index(byte, list)
        region == list[index + 1]
        found == map_get(map, region)
    IN IF found.some
       THEN IF Len(found.list) = 0
            THEN [ok |-> TRUE, kv_index |-> index, proxyip |-> region, resp |-> NoResp]
            ELSE LET proxyip_index == candidate_index(byte, found.list) IN
                 [ok |-> TRUE, kv_index |-> index,
                  proxyip |-> replace(found.list[proxyip_index + 1], ":", "-"),
                  resp |-> NoResp]
       ELSE [ok |-> FALSE, kv_index |-> index, proxyip |-> region,
             resp |-> Response_error("Proxy region not found", 404)]

\* lines 161-173: the region draw, the lookup and the candidate draw, both
\* indices computed from the one random byte
select(list, map, byte) ==
    LET index == region_index(byte, list)
        region == list[index + 1]
        found == map_get(map, region)
    IN IF found.some
       THEN IF Len(found.list) = 0
            THEN [ok |-> FALSE, kv_index |-> index, proxyip |-> region,
                  resp |-> Response_error("No proxies available for this region", 404)]
            ELSE LET proxyip_index == candidate_index(byte, found.list) IN
                 [ok |-> TRUE, kv_index |-> index,
                  proxyip |-> replace(found.list[proxyip_index + 1], ":", "-"),
                  resp |-> NoResp]
       ELSE [ok |-> FALSE, kv_index |-> index, proxyip |-> region,
             resp |-> Response_error("Proxy region not found", 404)]

\* lines 144-173.  rnd is the byte from get_random_bytes(1), -1 when the
\* random source fails.
tunnel_select(r, rnd) ==
    /\ pc[r] = "select"
    /\ LET parsed == from_str(proxy_kv_str[r].text) IN
       IF ~parsed.ok
       THEN /\ Return(r, Response_error("Invalid proxy list format", 500))
            /\ UNCHANGED <<proxyip, kv_index, draws>>
       ELSE /\ draws' = [draws EXCEPT ![r] = @ + 1]
            /\ IF rnd < 0
               THEN /\ Return(r, Response_error("Internal Server Error", 500))
                    /\ UNCHANGED <<proxyip, kv_index>>
               ELSE LET res == select(kvid_list[r], parsed.map, rnd) IN
                    /\ proxyip' = [proxyip EXCEPT ![r] = res.proxyip]
                    /\ kv_index' = [kv_index EXCEPT ![r] = res.kv_index]
                    /\ IF res.ok
                       THEN pc' = [pc EXCEPT ![r] = "upgrade"] /\ UNCHANGED resp
                       ELSE Return(r, res.resp)
    /\ UNCHANGED <<uuidVar, kv, remote, seg, upg, cfg, kvid_list, fetched, cache_err,
                   proxy_kv_str, ws, sess>>

\* line 177: the test that decides between tunnel mode and the placeholder
wants_tunnel(upgrade, ip) ==
    upgrade = "websocket" /\ PROXYIP_PATTERN_is_match(ip)

\* lines 178-183: the relay target written into the Config; it is left as
\* main built it when there is no '-' or the port does not parse
relay_target(config, ip) ==
    LET parts == split_once(ip, "-")
        port == parse_u16(parts.port_str)
    IN IF parts.some /\ port.ok
       THEN [config EXCEPT !.proxy_addr = parts.addr, !.proxy_port = port.port]
       ELSE config

\* lines 176-212, 215-217: the header test, the relay target, the socket
\* pair, the accept and the spawn of the relay task
tunnel_upgrade(r, pairOk, acceptOk) ==
    /\ pc[r] = "upgrade"
    /\ IF wants_tunnel(upg[r], proxyip[r])
       THEN /\ cfg' = [cfg EXCEPT ![r] = relay_target(cfg[r], proxyip[r])]
            /\ IF ~pairOk
               THEN /\ Return(r, Response_error("WebSocket error", 500))
                    /\ UNCHANGED <<ws, sess>>
               ELSE IF ~acceptOk
               THEN /\ ws' = [ws EXCEPT ![r] = "paired"]
                    /\ Return(r, Response_error("WebSocket error", 500))
                    /\ UNCHANGED sess
               ELSE /\ ws' = [ws EXCEPT ![r] = "accepted"]
                    /\ sess' = [sess EXCEPT ![r] = "spawned"]
                    /\ pc' = [pc EXCEPT ![r] = "respond"]
                    /\ UNCHANGED resp
       ELSE /\ Return(r, Response_from_html("hi from wasm!"))
            /\ UNCHANGED <<cfg, ws, sess>>
    /\ UNCHANGED <<uuidVar, kv, remote, seg, upg, kvid_list, fetched, cache_err,
                   proxy_kv_str, proxyip, kv_index, draws>>

\* the handler awaiting the relay task before it returns the response
tunnel_respond_after_task(r) ==
    /\ pc[r] = "respond"
    /\ sess[r] = "finished"
    /\ Return(r, Response_from_websocket)
    /\ UNCHANGED <<uuidVar, kv, remote, seg, upg, cfg, kvid_list, fetched, cache_err,
                   proxy_kv_str, proxyip, kv_index, draws, ws, sess>>

\* line 214: the handler's result, produced without awaiting the task
tunnel_respond(r) ==
    /\ pc[r] = "respond"
    /\ Return(r, Response_from_websocket)
    /\ UNCHANGED <<uuidVar, kv, remote, seg, upg, cfg, kvid_list, fetched, cache_err,
                   proxy_kv_str, proxyip, kv_index, draws, ws, sess>>

\* ------------------------------------------------------------ relay task
\* lines 201-212: the spawned future.  server.events() fails or the stream
\* is processed; process() ends with Ok or with an error that is logged.
session_start(r, eventsOk) ==
    /\ sess[r] = "spawned"
    /\ sess' = [sess EXCEPT ![r] = IF eventsOk THEN "running" ELSE "events_failed"]
    /\ UNCHANGED <<uuidVar, kv, remote, pc, seg, upg, cfg, kvid_list, fetched, cache_err,
                   proxy_kv_str, proxyip, kv_index, draws, ws, resp>>

session_end(r, processOk) ==
    /\ sess[r] = "running"
    /\ sess' = [sess EXCEPT ![r] = IF processOk THEN "finished" ELSE "process_failed"]
    /\ UNCHANGED <<uuidVar, kv, remote, pc, seg, upg, cfg, kvid_list, fetched, cache_err,
                   proxy_kv_str, proxyip, kv_index, draws, ws, resp>>

\* ------------------------------------------------------------ environment
\* the remote source changes what it answers
remote_change(state) ==
    /\ remote # state
    /\ remote' = state
    /\ UNCHANGED <<uuidVar, kv, pc, seg, upg, cfg, kvid_list, fetched, cache_err,
                   proxy_kv_str, proxyip, kv_index, draws, ws, sess, resp>>

\* the durable entry reaches its expiration_ttl and is dropped by the store
kv_expire ==
    /\ kv.present
    /\ kv' = Absent
    /\ UNCHANGED <<uuidVar, remote, pc, seg, upg, cfg, kvid_list, fetched, cache_err,
                   proxy_kv_str, proxyip, kv_index, draws, ws, sess, resp>>

\* The slot of a finished request, whose relay task is no longer scheduled,
\* serves the next request: every invocation of main starts from fresh
\* locals (lines 24-51, 104-109).
next_request(r) ==
    /\ pc[r] = "done"
    /\ sess[r] \notin {"spawned", "running"}
    /\ pc' = [pc EXCEPT ![r] = "idle"]
    /\ seg' = [seg EXCEPT ![r] = NoStr]
    /\ upg' = [upg EXCEPT ![r] = ""]
    /\ cfg' = [cfg EXCEPT ![r] = NoCfg]
    /\ kvid_list' = [kvid_list EXCEPT ![r] = <<>>]
    /\ fetched' = [fetched EXCEPT ![r] = NoText]
    /\ cache_err' = [cache_err EXCEPT ![r] = FALSE]
    /\ proxy_kv_str' = [proxy_kv_str EXCEPT ![r] = NoText]
    /\ proxyip' = [proxyip EXCEPT ![r] = NoStr]
    /\ kv_index' = [kv_index EXCEPT ![r] = -1]
    /\ draws' = [draws EXCEPT ![r] = 0]
    /\ ws' = [ws EXCEPT ![r] = "none"]
    /\ sess' = [sess EXCEPT ![r] = "none"]
    /\ resp' = [resp EXCEPT ![r] = NoResp]
    /\ UNCHANGED <<uuidVar, kv, remote>>

\* ---------------------------------------------------------- specifications
\* Spec: one request at a time, with every route segment, header, store
\* state and failure; requests follow one another in the slot FirstReq.
FirstReq == 1

Next ==
    \/ \E s \in Segments, u \in UpgradeHeaders : main(FirstReq, s, u)
    \/ \E b \in BOOLEAN : tunnel_enter(FirstReq, b)
    \/ \E b \in BOOLEAN : tunnel_kv_get(FirstReq, b)
    \/ \E b \in BOOLEAN : tunnel_fetch(FirstReq, b)
    \/ \E b \in BOOLEAN : tunnel_kv_put(FirstReq, b)
    \/ \E rnd \in -1..MaxRand : tunnel_select(FirstReq, rnd)
    \/ \E p \in BOOLEAN, a \in BOOLEAN : tunnel_upgrade(FirstReq, p, a)
    \/ tunnel_respond(FirstReq)
    \/ \E b \in BOOLEAN : session_start(FirstReq, b)
    \/ \E b \in BOOLEAN : session_end(FirstReq, b)
    \/ next_request(FirstReq)
    \/ \E st \in RemoteStates : remote_change(st)
    \/ kv_expire

Spec == Init /\ [][Next]_vars

\* SpecConc: NumReqs requests in flight together, each a selector request
\* without the Upgrade header, so that the interleavings of the directory
\* lookup (get, fetch, put) are explored.
SelectorSegments == {<<"A","A",",","B","B">>}

InitConc == Init /\ uuidVar = "uuid-1"

NextConc ==
    \/ \E r \in Reqs, s \in SelectorSegments : main(r, s, "")
    \/ \E r \in Reqs, b \in BOOLEAN : tunnel_enter(r, b)
    \/ \E r \in Reqs, b \in BOOLEAN : tunnel_kv_get(r, b)
    \/ \E r \in Reqs, b \in BOOLEAN : tunnel_fetch(r, b)
    \/ \E r \in Reqs, b \in BOOLEAN : tunnel_kv_put(r, b)
    \/ \E r \in Reqs, rnd \in -1..MaxRand : tunnel_select(r, rnd)
    \/ \E r \in Reqs, p \in BOOLEAN, a \in BOOLEAN : tunnel_upgrade(r, p, a)
    \/ \E st \in RemoteStates : remote_change(st)
    \/ kv_expire

SpecConc == InitConc /\ [][NextConc]_vars

\* ------------------------------------------------------------- properties
\* the request's route segment is a region selector expression (line 111)
IsSelector(r) == PROXYKV_PATTERN_is_match(seg[r])

\* the directory the request resolves against, once it has one
Directory(r) == from_str(proxy_kv_str[r].text)

\* the region the request drew (line 162), once it has drawn
DrawnRegion(r) == kvid_list[r][kv_index[r] + 1]

\* directory lookup and candidate selection have completed successfully: the
\* request holds a directory that parses, has drawn a region of its selector
\* list that the directory knows, and `proxyip` is a candidate of that
\* region in its wire form
Resolved(r) ==
    /\ proxy_kv_str[r].some
    /\ Directory(r).ok
    /\ kv_index[r] >= 0
    /\ DrawnRegion(r) \in DOMAIN Directory(r).map
    /\ \E j \in 1..Len(Directory(r).map[DrawnRegion(r)]) :
          proxyip[r] = replace(Directory(r).map[DrawnRegion(r)][j], ":", "-")

IsHttpError(response) == response.status \in {400, 404, 500, 502}

\* C1: for a selector request the upgrade is accepted (pair, accept, 101,
\* relay task) only when lookup and selection have completed successfully,
\* and a request that ends without a completed resolution ends with an HTTP
\* error response, no accepted WebSocket and no relay task.
C1_ResolveBeforeUpgrade ==
    \A r \in Reqs :
        (IsSelector(r) /\ pc[r] # "idle") =>
            /\ (ws[r] # "none" \/ sess[r] # "none" \/ resp[r].status = 101)
                  => Resolved(r)
            /\ (pc[r] = "done" /\ ~Resolved(r))
                  => /\ IsHttpError(resp[r])
                     /\ ws[r] = "none"
                     /\ sess[r] = "none"

\* a selector request was resolved and then upgraded
C1_Witness ==
    \E r \in Reqs :
        /\ IsSelector(r) /\ Resolved(r)
        /\ ws[r] = "accepted" /\ sess[r] # "none"
        /\ pc[r] = "done" /\ resp[r] = Response_from_websocket

\* C2 (as claimed): a relay task always runs with the host and the 16-bit
\* port of the resolved host-port string as its target; a string whose port
\* does not parse, or whose host contains '-', starts no task.
C2_TargetIsResolvedHostPort ==
    \A r \in Reqs :
        sess[r] # "none" =>
            LET parts == split_once(proxyip[r], "-")
                port == parse_u16(parts.port_str)
            IN /\ parts.some
               /\ port.ok
               /\ cfg[r].proxy_addr = parts.addr
               /\ cfg[r].proxy_port = port.port

\* C3: when the region drawn by a selector request is absent from the
\* directory, or present with an empty list, the request ends with 404 and
\* neither an accepted WebSocket nor a relay task.
C3_RegionNotFound ==
    \A r \in Reqs :
        (/\ IsSelector(r)
         /\ proxy_kv_str[r].some /\ Directory(r).ok
         /\ kv_index[r] >= 0
         /\ \/ DrawnRegion(r) \notin DOMAIN Directory(r).map
            \/ Len(Directory(r).map[DrawnRegion(r)]) = 0)
        => /\ pc[r] = "done"
           /\ resp[r].status = 404
           /\ ws[r] = "none"
           /\ sess[r] = "none"

\* a request drew a region that the directory lists with no candidates
C3_Witness ==
    \E r \in Reqs :
        /\ IsSelector(r)
        /\ proxy_kv_str[r].some /\ Directory(r).ok
        /\ kv_index[r] >= 0
        /\ DrawnRegion(r) \in DOMAIN Directory(r).map
        /\ Len(Directory(r).map[DrawnRegion(r)]) = 0
        /\ pc[r] = "done"

\* the remote source fails now: network error or a status other than 200
RemoteFails == remote.kind = "neterr" \/ remote.status # 200

\* C4: the step in which a request that found the durable key absent gets the
\* failure of the remote source ends the request with 500 or 502, leaves the
\* durable entry as it was, and leaves the request with no WebSocket and no
\* relay task.
C4_FetchFailureAborts ==
    [][\A r \in Reqs :
          (pc[r] = "fetch" /\ pc'[r] # "fetch" /\ RemoteFails)
          => /\ pc'[r] = "done"
             /\ resp'[r].status \in {500, 502}
             /\ kv' = kv
             /\ ws'[r] = "none"
             /\ sess'[r] = "none"]_vars

\* a request found the key absent, the source answered 500, and the request
\* ended with 502 and the key still absent
C4_Witness ==
    \E r \in Reqs :
        /\ pc[r] = "done"
        /\ resp[r] = Response_error("Failed to fetch proxy list", 502)
        /\ remote.kind = "http" /\ remote.status = 500
        /\ ~kv.present
        /\ ~fetched[r].some

\* C5 (as claimed): a durable entry that does not parse is treated as a
\* miss, so no request ends having resolved against an unparsable entry
\* without fetching the directory again.
C5_UnparsableEntryIsMiss ==
    \A r \in Reqs :
        (pc[r] = "done" /\ proxy_kv_str[r].some /\ ~fetched[r].some)
        => Directory(r).ok

\* C6 (as claimed): every request that reaches the tunnel handler without
\* Upgrade: websocket gets the placeholder, whatever the segment, the
\* durable entry and the remote source.
C6_PlaceholderForNonUpgrade ==
    \A r \in Reqs :
        (pc[r] = "done" /\ cfg[r] # NoCfg /\ upg[r] # "websocket")
        => resp[r] = Response_from_html("hi from wasm!")

\* C7 (as claimed): with the UUID setting missing or not a valid identifier,
\* every request ends with 500 before any route handler runs, and no relay
\* task runs with the nil identity.
C7_InvalidUuidIsFatal ==
    \A r \in Reqs :
        uuidVar # "uuid-1"
        => /\ pc[r] \in {"idle", "done"}
           /\ pc[r] = "done" => resp[r] = Response_error("Internal Server Error", 500)
           /\ sess[r] = "none"
           /\ cfg[r].uuid # NilUuid

\* C8 (as claimed): a selector request whose chosen candidate fails the shape
\* check ends only after 3 draws, with the terminal outcome (404, or a task
\* on the declared fallback target), never with another response.
C8_ThreeAttempts ==
    \A r \in Reqs :
        (/\ pc[r] = "done"
         /\ IsSelector(r) /\ Resolved(r)
         /\ ~PROXYIP_PATTERN_is_match(proxyip[r]))
        => /\ draws[r] = 3
           /\ resp[r].status = 404 \/ sess[r] # "none"

\* C9: after a successful accept the relay task exists as a task of its own
\* and the handler's response does not wait for it: while the handler is
\* about to return, the return is possible in every state of the task (not
\* started, running, failed, finished), and the response returned is the
\* upgraded-connection response whatever became of the task.
C9_ResponseIndependentOfTask ==
    \A r \in Reqs :
        ws[r] = "accepted"
        => /\ sess[r] # "none"
           /\ pc[r] \in {"respond", "done"}
           /\ pc[r] = "respond" => ENABLED tunnel_respond(r)
           /\ pc[r] = "done" => resp[r] = Response_from_websocket

\* the response was returned and the task has failed in process()
C9_Witness ==
    \E r \in Reqs :
        /\ ws[r] = "accepted"
        /\ pc[r] = "done" /\ resp[r] = Response_from_websocket
        /\ sess[r] = "process_failed"

\* the request has executed its write-back (line 127)
PastPut(r) == fetched[r].some /\ pc[r] \in {"select", "upgrade", "respond", "done"}

\* C10: with concurrent selector requests that found the key absent, every
\* write-back that does not fail replaces the durable entry by the text its
\* request fetched, whatever another request stored meanwhile; the entry,
\* when present, is exactly the text one of them fetched and wrote, with the
\* TTL of the write; and every such request resolves against the text it
\* fetched itself.
C10_LastWriterWins ==
    /\ [](/\ kv.present
             => /\ \E r \in Reqs : PastPut(r) /\ ~cache_err[r]
                                   /\ kv.text = fetched[r].text
                /\ kv.ttl = KV_CACHE_TTL
          /\ \A r \in Reqs : PastPut(r) => proxy_kv_str[r] = fetched[r])
    /\ [][\A r \in Reqs :
             (pc[r] = "kv_put" /\ pc'[r] # "kv_put")
             => IF cache_err'[r] THEN kv' = kv
                ELSE kv' = Stored(fetched[r].text, KV_CACHE_TTL)]_vars

\* two requests both found the key absent, fetched different texts and wrote
\* them; the entry holds the text of one, and the other still resolves
\* against its own
C10_Witness ==
    \E r1 \in Reqs, r2 \in Reqs :
        /\ r1 # r2
        /\ PastPut(r1) /\ PastPut(r2)
        /\ ~cache_err[r1] /\ ~cache_err[r2]
        /\ pc[r1] = "done" /\ pc[r2] = "done"
        /\ fetched[r1].text # fetched[r2].text
        /\ kv.present /\ kv.text = fetched[r2].text
        /\ proxy_kv_str[r1] = fetched[r1]

\* C11 (as claimed): the durable entry is absent or holds text that parses
\* as a region -> list mapping; a fetched body that does not parse is never
\* stored.
C11_StoredTextParses ==
    kv.present => from_str(kv.text).ok

\* the TTL window of the durable entry, in seconds: 6 to 24 hours
TtlInWindow(ttl) == 6 * 60 * 60 <= ttl /\ ttl <= 24 * 60 * 60

\* C12: the lookup is read-through.  A request that reads a present entry
\* uses its text, fetches nothing and writes nothing; the remote source is
\* fetched only by a request that read the key absent; the write-back after
\* a successful fetch stores the fetched text with a TTL of 6 to 24 hours,
\* the fetched text is the directory of the request, and a failed write
\* leaves the request running on the fetched text.
C12_ReadThrough ==
    /\ [](/\ kv.present => TtlInWindow(kv.ttl)
          /\ \A r \in Reqs :
                /\ (proxy_kv_str[r].some /\ ~fetched[r].some)
                      => pc[r] \notin {"fetch", "kv_put"}
                /\ fetched[r].some /\ proxy_kv_str[r].some
                      => proxy_kv_str[r] = fetched[r])
    /\ [][(kv' # kv /\ kv'.present)
             => \E r \in Reqs : pc[r] = "kv_put" /\ pc'[r] # "kv_put"]_vars
    /\ [][\A r \in Reqs :
             /\ (pc[r] = "kv_get" /\ pc'[r] # "kv_get" /\ kv.present)
                => /\ kv' = kv
                   /\ fetched'[r] = fetched[r]
                   /\ pc'[r] \in {"select", "done"}
                   /\ pc'[r] = "select" => proxy_kv_str'[r] = SomeText(kv.text)
             /\ (pc[r] # "fetch" /\ pc'[r] = "fetch") => ~kv.present
             /\ (pc[r] = "kv_put" /\ pc'[r] # "kv_put")
                => /\ pc'[r] = "select" /\ resp'[r] = NoResp
                   /\ proxy_kv_str'[r] = fetched[r]
                   /\ ~cache_err'[r]
                         => /\ kv'.present /\ kv'.text = fetched[r].text
                            /\ TtlInWindow(kv'.ttl)
                   /\ cache_err'[r] => kv' = kv]_vars

\* a request read the present entry and was upgraded on it without a fetch
C12_Witness ==
    \E r \in Reqs :
        /\ pc[r] = "done" /\ resp[r] = Response_from_websocket
        /\ proxy_kv_str[r].some /\ ~fetched[r].some
        /\ kv.present /\ proxy_kv_str[r].text = kv.text

\* the values of rand_buf[0], a u8 (line 232)
U8_MAX == 255
Bytes == 0..U8_MAX

\* C13 (as claimed): for a request about to draw, every pair of a region of
\* its selector list that the directory knows and a candidate of that region
\* is a possible outcome of the draw: some random byte selects that region
\* and that candidate.
C13_EveryPairPossible ==
    \A r \in Reqs :
        (pc[r] = "select" /\ Directory(r).ok)
        => \A i \in 1..Len(kvid_list[r]) :
              kvid_list[r][i] \in DOMAIN Directory(r).map
              => \A j \in 1..Len(Directory(r).map[kvid_list[r][i]]) :
                    \E b \in Bytes :
                       LET res == select(kvid_list[r], Directory(r).map, b) IN
                       /\ res.ok
                       /\ res.kv_index = i - 1
                       /\ res.proxyip =
                            replace(Directory(r).map[kvid_list[r][i]][j], ":", "-")

\* the segment is a comma-separated list of 2-letter region codes
IsRegionList(s) ==
    \A i \in 1..Len(split(s, ",")) :
        LET code == split(s, ",")[i] IN
        Len(code) = 2 /\ IsUpper(code[1]) /\ IsUpper(code[2])

\* the request is inside, or has been through, directory resolution
EnteredResolution(r) ==
    \/ pc[r] \in {"kv_get", "fetch", "kv_put", "select"}
    \/ kvid_list[r] # <<>>

\* C14 (as claimed): a request whose segment is a literal host-port
\* candidate never enters directory resolution (no read of the durable
\* entry, no fetch, no write, no random draw) and keeps the segment as its
\* `proxyip`; only a comma-separated list of 2-letter region codes enters
\* resolution.
C14_LiteralBypassesResolution ==
    \A r \in Reqs :
        /\ (pc[r] \notin {"idle", "tunnel"} /\ cfg[r] # NoCfg
            /\ PROXYIP_PATTERN_is_match(seg[r]))
           => /\ ~EnteredResolution(r)
              /\ ~proxy_kv_str[r].some /\ ~fetched[r].some
              /\ draws[r] = 0
              /\ proxyip[r] = seg[r]
        /\ EnteredResolution(r) => IsRegionList(seg[r])

\* s with its first occurrence of `from` replaced by `to`
ReplaceFirst(s, from, to) ==
    LET i == FirstIndex(s, from) IN
    IF i = 0 THEN s ELSE [k \in 1..Len(s) |-> IF k = i THEN to ELSE s[k]]

\* C15 (as claimed): the `proxyip` of a request that chose a candidate is
\* the candidate with only its first ':' replaced by '-', and the request is
\* upgraded on it only if that string has the shape <non-empty>-<integer>.
C15_FirstColonOnly ==
    \A r \in Reqs :
        (IsSelector(r) /\ Resolved(r))
        => /\ \E j \in 1..Len(Directory(r).map[DrawnRegion(r)]) :
                 proxyip[r] =
                    ReplaceFirst(Directory(r).map[DrawnRegion(r)][j], ":", "-")
           /\ ws[r] # "none" => PROXYIP_PATTERN_is_match(proxyip[r])

\* C16: for every request in directory resolution the selector list is
\* non-empty and, for every value of the random byte, the region index is
\* below the length of the selector list and the candidate index, computed
\* for a region whose list is not empty, is below the length of that list;
\* a request that has drawn holds an index into its selector list.
C16_IndicesInBounds ==
    \A r \in Reqs :
        /\ EnteredResolution(r)
           => /\ Len(kvid_list[r]) >= 1
              /\ \A b \in Bytes :
                    region_index(b, kvid_list[r]) \in 0..(Len(kvid_list[r]) - 1)
        /\ (pc[r] = "select" /\ Directory(r).ok)
           => \A b \in Bytes :
                 LET region == kvid_list[r][region_index(b, kvid_list[r]) + 1]
                     found == map_get(Directory(r).map, region)
                     res == select(kvid_list[r], Directory(r).map, b)
                 IN /\ (found.some /\ Len(found.list) > 0)
                       => candidate_index(b, found.list) \in 0..(Len(found.list) - 1)
                    /\ (found.some /\ Len(found.list) = 0) => ~res.ok
        /\ kv_index[r] >= 0 => kv_index[r] < Len(kvid_list[r])

\* a request with a two-element selector list drew its second region and
\* the second candidate of that region
C16_Witness ==
    \E r \in Reqs :
        /\ Len(kvid_list[r]) = 2
        /\ kv_index[r] = 1
        /\ Resolved(r)
        /\ Len(Directory(r).map[DrawnRegion(r)]) = 2
        /\ proxyip[r] = replace(Directory(r).map[DrawnRegion(r)][2], ":", "-")

====
